---- MODULE Spec2Model ----
(***************************************************************************)
(* Model of PDFtoMarkdown:                                                 *)
(*  - the batch-processing pipeline ProcessingTask.run / process_image /   *)
(*    format_results (src/gui/main_window.py);                             *)
(*  - the shared OpenAIClient and its reconfiguration                      *)
(*    (src/openai_client.py);                                              *)
(*  - the main window: file selection, process_file, processing_finished   *)
(*    (src/gui/main_window.py, src/pdf_processor.py);                      *)
(*  - the assistants (src/config_manager.py, src/gui/assistant_manager.py).*)
(* Each part has its own specification; the variables of the other parts   *)
(* stay at their initial values.                                           *)
(*                                                                         *)
(* Text is modelled as a sequence of tokens (each token a piece of text,   *)
(* the newline being the token "\n"); string concatenation is \o.          *)
(***************************************************************************)
EXTENDS Integers, Sequences, FiniteSets, TLC

VARIABLES
    images,         \* self.images: the list of image paths (a path is a token)
    parallelism,    \* self.parallelism
    max_retries,    \* self.max_retries
    output_format,  \* self.output_format
    runpc,          \* position of the run thread
    submitted,      \* number of executor.submit calls made so far
    work_queue,     \* the executor's queue of work items not yet picked up
    st,             \* per unit: position of its process_image invocation
    retries,        \* per unit: the local variable retries of process_image
    attempts,       \* per unit: number of loop iterations begun (history)
    waits,          \* per unit: the msleep durations, in seconds (history)
    steps,          \* per unit: what process_image did, in program order (history)
    notified,       \* per unit: number of retry notifications emitted (history)
    last_note,      \* per unit: the last retry notification emitted
    ret,            \* per unit: the value returned by process_image
    results,        \* the local list results of run
    format_in,      \* the list format_results was called with (history)
    final_text,     \* the value returned by format_results
    emitted,        \* the signals emitted by the run thread, in emission order
    client_config,  \* OpenAIClient.config: the configuration last handed over
    client_fields,  \* OpenAIClient: per attribute, the configuration it was set from
    upd_pc,         \* position of the GUI thread inside setup_client (0: outside)
    updates,        \* number of update_config calls made so far
    call_pc,        \* per call of OpenAIClient.process_image: its next read
    call_params,    \* per call: per attribute read, the configuration it came from
    current_file,   \* MainWindow.current_file
    image_paths,    \* MainWindow.image_paths
    process_btn,    \* whether process_btn is enabled
    processing_task,\* the ProcessingTask: "none", "running", "complete" (its
                    \* processing_complete is queued for the GUI thread)
    task_file,      \* current_file when the task was started (history)
    task_images,    \* the images the task was constructed with
    task_batch,     \* the rasterisation made for the task, 0 if none (history)
    disk,           \* the files that exist
    batches,        \* number of rasterisations made so far
    app,            \* "running", or "aborted" by an exception leaving a slot
    has_api_key,    \* whether openai_client.api_key is non-empty
    temp_match,     \* whether tempfile.gettempdir() is a substring of "./tmp/..."
    store,          \* data/assistants: per file that exists, the prompts in it
    last_assistant, \* config["last_assistant"]
    combo_items,    \* the items of assistant_combo
    combo_text,     \* assistant_combo.currentText()
    prompts,        \* the texts of system_prompt and user_prompt
    manager_open    \* whether the AssistantManager dialog is open

vars == <<images, parallelism, max_retries, output_format, runpc, submitted,
          work_queue, st, retries, attempts, waits, steps, notified,
          last_note, ret, results, format_in, final_text, emitted>>

\* the shared OpenAIClient and the calls made on it
cvars == <<client_config, client_fields, upd_pc, updates, call_pc, call_params>>

\* the main window: file selection, the Process button, the files on disk
gvars == <<current_file, image_paths, process_btn, processing_task, task_file,
           task_images, task_batch, disk, batches, app, has_api_key, temp_match>>

\* the assistants: the files of data/assistants and the widgets showing them
avars == <<store, last_assistant, combo_items, combo_text, prompts, manager_open>>

\* what the batch of one ProcessingTask leaves alone
others == <<cvars, gvars, avars>>

----------------------------------------------------------------------------
(* Bounds of the model *)
MaxPages == 2
MaxParallelism == 2
MaxRetriesBound == 2
\* the longest result list format_results is applied to on its own
MaxResults == 3
\* the most pages of a run whose outcomes are collected in page order
\* the most update_config calls, and the most OpenAIClient.process_image calls
MaxUpdates == 2
MaxCalls == 2

\* the most PDF rasterisations
MaxBatches == 2

MaxTotal == 12

----------------------------------------------------------------------------
(* Helpers *)

RECURSIVE Pow2(_)
Pow2(n) == IF n = 0 THEN 1 ELSE 2 * Pow2(n - 1)

Units == 0 .. (Len(images) - 1)

NoRet == <<>>
NoNote == <<>>

----------------------------------------------------------------------------
(* The environment: what one pass through the try body of process_image    *)
(* (load_image, then the remote call) can answer.  The texts carry the     *)
(* unit and the attempt they belong to.                                    *)

Response(idx, k) == <<"text of page ", ToString(idx + 1), " call ", ToString(k)>>
ApiError(idx, k) == <<"api error page ", ToString(idx + 1), " call ", ToString(k)>>
ExcText(idx, k) == <<"exception page ", ToString(idx + 1), " call ", ToString(k)>>

----------------------------------------------------------------------------
(* Signals *)

ProgressSig(value, msg) == <<"progress_updated", value, msg>>
CompleteSig(text) == <<"processing_complete", text>>

ProcessedMsg_count(page_num, total) ==
    <<"Processed page ", ToString(Len(results) + 1), "/", ToString(total)>>

ProcessedMsg(page_num, total) ==
    <<"Processed page ", ToString(page_num), "/", ToString(total)>>

RetryingMsg(page_num, r, maxr) ==
    <<"Retrying page ", ToString(page_num), " (attempt ", ToString(r), "/",
      ToString(maxr), ")...">>

ErrorRetryMsg_zeroBased(page_num, r, maxr) ==
    <<"Error on page ", ToString(page_num), ", retrying (attempt ",
      ToString(r - 1), "/", ToString(maxr), ")...">>

ErrorRetryMsg(page_num, r, maxr) ==
    <<"Error on page ", ToString(page_num), ", retrying (attempt ", ToString(r),
      "/", ToString(maxr), ")...">>

----------------------------------------------------------------------------
(* format_results *)

separator_ruled == <<"\n", "\n", "---", "\n", "\n">>

separator == <<"\n", "\n">>

\* the code fence of the markdown error block (three backquotes)
Fence == "[fence]"

ErrorBlock(fmt, page_num, text) ==
    IF fmt = "md"
    THEN <<"> **Error processing page ", ToString(page_num), ":**", "\n", ">",
           "\n", "> " \o Fence \o "json", "\n", "> ">> \o text \o <<"\n", "> " \o Fence>>
    ELSE <<"--- Error processing page ", ToString(page_num), " ---", "\n", "\n">>
           \o text \o <<"\n", "\n", "---">>

Block_zeroBased(fmt, r) == IF r[2] THEN r[3] ELSE ErrorBlock(fmt, r[1], r[3])

\* one iteration of the loop over results: the block appended to output
Block(fmt, r) == IF r[2] THEN r[3] ELSE ErrorBlock(fmt, r[4], r[3])

\* the list output after the loop
OutputBlocks(fmt, rs) == [k \in 1 .. Len(rs) |-> Block(fmt, rs[k])]

RECURSIVE Join(_, _)
Join(sep, blocks) ==
    IF blocks = <<>> THEN <<>>
    ELSE IF Len(blocks) = 1 THEN blocks[1]
    ELSE blocks[1] \o sep \o Join(sep, Tail(blocks))

format_results(fmt, rs) == Join(separator, OutputBlocks(fmt, rs))

----------------------------------------------------------------------------
(* results.sort(key=lambda x: x[0]): a stable sort on the index *)

RECURSIVE InsertByIdx(_, _)
InsertByIdx(r, sorted) ==
    IF sorted = <<>> THEN <<r>>
    ELSE IF r[1] < Head(sorted)[1] THEN <<r>> \o sorted
    ELSE <<Head(sorted)>> \o InsertByIdx(r, Tail(sorted))

SortByIdx_unsorted(rs) == rs

RECURSIVE SortByIdx(_)
SortByIdx(rs) ==
    IF rs = <<>> THEN <<>>
    ELSE InsertByIdx(rs[Len(rs)], SortByIdx(SubSeq(rs, 1, Len(rs) - 1)))

----------------------------------------------------------------------------
(* The thread pool *)

\* the units whose process_image invocation occupies a worker thread
Busy == {i \in Units : st[i] \in {"attempting", "sleeping"}}

\* the units inside the try body: load_image and the remote call in flight
InFlight == {i \in Units : st[i] = "attempting"}

SlotFree_batch == Busy = {}

SlotFree_sleepFrees == Cardinality(InFlight) < parallelism

\* a worker thread can take the next work item
SlotFree == Cardinality(Busy) < parallelism

ProgressPercent_oneAhead(done, total) == ((done + 1) * 100) \div total

ProgressPercent_rounded(done, total) == (done * 200 + total) \div (2 * total)

ProgressPercent_zeroBased(done, total) == ((done - 1) * 100) \div total

\* int((i + 1) / len(self.images) * 100); the float product truncates to the
\* integer quotient for every len(self.images) below 50
ProgressPercent(done, total) == (done * 100) \div total

----------------------------------------------------------------------------
(* The shared OpenAIClient (src/openai_client.py).  A configuration is      *)
(* named by its number: 0 is the one the client was constructed with, k is  *)
(* the one handed over by the k-th update_config.                           *)

\* the attributes setup_client assigns, in the order of its assignments
WriteOrder ==
    <<"model_id", "temperature", "max_tokens", "top_k", "api_key", "api_url",
      "stream", "repair_formula_tag", "client">>

\* the attributes process_image reads, in the order of its reads
ReadOrder ==
    <<"model_id", "temperature", "stream", "max_tokens", "client",
      "repair_formula_tag">>

Attributes == {WriteOrder[k] : k \in 1 .. Len(WriteOrder)}

Calls == 1 .. MaxCalls

\* no attribute read yet
NoParams == <<>>

\* the client as constructed, no call made
ClientIdle ==
    /\ client_config = 0
    /\ client_fields = [a \in Attributes |-> 0]
    /\ upd_pc = 0
    /\ updates = 0
    /\ call_pc = [c \in Calls |-> 1]
    /\ call_params = [c \in Calls |-> NoParams]

----------------------------------------------------------------------------
(* Files (src/gui/main_window.py, src/pdf_processor.py).  A path is a       *)
(* sequence of tokens whose last token is the extension.                    *)

NoFile == <<>>

\* the files of the user: two readable PDFs of two pages and of one page, a
\* PDF that fitz cannot open, an image and a presentation
UserFiles ==
    {<<"a", ".pdf">>, <<"B", ".PDF">>, <<"bad", ".pdf">>, <<"pic", ".png">>,
     <<"deck", ".pptx">>}

\* len(pdf_document)
PageCount(f) == IF f = <<"a", ".pdf">> THEN 2 ELSE 1

\* whether fitz.open(pdf_path) raises
Unreadable(f) == f = <<"bad", ".pdf">>

\* str.lower() on an extension
Lower(t) ==
    CASE t = ".PDF" -> ".pdf"
      [] t = ".PNG" -> ".png"
      [] t = ".PPTX" -> ".pptx"
      [] OTHER -> t

\* os.path.splitext(self.current_file)[1].lower()
file_ext(f) == Lower(f[Len(f)])

\* f"./tmp/{timestamp}": the output directory of the b-th rasterisation
OutputDir(b) == <<"./tmp/", ToString(b)>>

\* os.path.join(output_dir, f"page_{page_num + 1:03d}.png")
PagePath(b, page_num) == OutputDir(b) \o <<"/page_", ToString(page_num + 1), ".png">>

\* the list convert_pdf_to_images returns: the pages in page order
convert_pdf_to_images(f, b) == [k \in 1 .. PageCount(f) |-> PagePath(b, k - 1)]

\* os.path.dirname of a path
dirname(f) == IF Len(f) > 2 THEN SubSeq(f, 1, 2) ELSE <<>>

\* tempfile.gettempdir() in image_dir
InTempDir(dir) == dir # <<>> /\ dir[1] = "./tmp/" /\ temp_match

\* the set of the elements of a list
Range(q) == {q[k] : k \in 1 .. Len(q)}

\* the window as constructed, nothing selected
GuiIdle ==
    /\ current_file = NoFile
    /\ image_paths = <<>>
    /\ process_btn = TRUE
    /\ processing_task = "none"
    /\ task_file = NoFile
    /\ task_images = <<>>
    /\ task_batch = 0
    /\ disk = UserFiles
    /\ batches = 0
    /\ app = "running"
    /\ has_api_key = FALSE
    /\ temp_match = FALSE

----------------------------------------------------------------------------
(* Assistants (src/config_manager.py).  A name is a sequence of tokens; the *)
(* token ".json" stands for that piece of text wherever it occurs.          *)

\* the empty string
NoName == <<>>

\* f"{self.assistants_dir}/{name}.json"
FileOf(name) == name \o <<".json">>

IsNotJson(t) == t # ".json"

\* f.replace(".json", ""): every occurrence is removed
StripJson(f) == SelectSeq(f, IsNotJson)

\* get_assistants on the files s: the names it lists
get_assistants(s) == {StripJson(f) : f \in {g \in DOMAIN s : g[Len(g)] = ".json"}}

\* load_assistant(name) is not None
Stored(s, name) == FileOf(name) \in DOMAIN s

\* save_assistant(name, system_prompt, user_prompt) on the files s
save_assistant(s, name, p) ==
    [f \in DOMAIN s \cup {FileOf(name)} |-> IF f = FileOf(name) THEN p ELSE s[f]]

\* ConfigManager.delete_assistant(name) on the files s
remove_assistant(s, name) == [f \in DOMAIN s \ {FileOf(name)} |-> s[f]]

\* no file at all
NoFiles == <<>>

\* the prompts of an assistant just created
EmptyPrompts == <<"", "">>

AssistantsIdle ==
    /\ store = NoFiles
    /\ last_assistant = NoName
    /\ combo_items = {}
    /\ combo_text = NoName
    /\ prompts = EmptyPrompts
    /\ manager_open = FALSE

OthersIdle == ClientIdle /\ GuiIdle /\ AssistantsIdle

----------------------------------------------------------------------------
Init ==
    /\ \E n \in 0 .. MaxPages : images = [k \in 1 .. n |-> "img" \o ToString(k)]
    /\ parallelism \in 1 .. MaxParallelism
    /\ max_retries \in 0 .. MaxRetriesBound
    /\ output_format \in {"md", "txt"}
    /\ runpc = "running"
    /\ submitted = 0
    /\ work_queue = <<>>
    /\ st = [i \in Units |-> "new"]
    /\ retries = [i \in Units |-> 0]
    /\ attempts = [i \in Units |-> 0]
    /\ waits = [i \in Units |-> <<>>]
    /\ steps = [i \in Units |-> <<>>]
    /\ notified = [i \in Units |-> 0]
    /\ last_note = [i \in Units |-> NoNote]
    /\ ret = [i \in Units |-> NoRet]
    /\ results = <<>>
    /\ format_in = <<>>
    /\ final_text = <<>>
    /\ emitted = <<>>
    /\ OthersIdle

config == <<images, parallelism, max_retries, output_format>>

\* executor.submit(self.process_image, image_path, idx)
Submit ==
    /\ runpc = "running"
    /\ submitted < Len(images)
    /\ work_queue' = Append(work_queue, submitted)
    /\ st' = [st EXCEPT ![submitted] = "queued"]
    /\ submitted' = submitted + 1
    /\ UNCHANGED <<config, runpc, retries, attempts, waits, steps, notified,
                   last_note, ret, results, format_in, final_text, emitted>>
    /\ UNCHANGED others

\* the top of "while retries <= self.max_retries" for unit i with counter r
LoopTop(i, r) ==
    IF r <= max_retries
    THEN /\ st' = [st EXCEPT ![i] = "attempting"]
         /\ attempts' = [attempts EXCEPT ![i] = @ + 1]
         /\ steps' = [steps EXCEPT ![i] = Append(@, "call")]
         /\ ret' = ret
    ELSE /\ st' = [st EXCEPT ![i] = "returned"]
         /\ attempts' = attempts
         /\ steps' = steps
         /\ ret' = [ret EXCEPT ![i] = <<FALSE, <<"Maximum retries exceeded">>>>]

\* a worker thread takes the oldest work item and enters process_image
StartWork ==
    /\ work_queue # <<>>
    /\ SlotFree
    /\ LET i == Head(work_queue) IN
         /\ work_queue' = Tail(work_queue)
         /\ retries' = [retries EXCEPT ![i] = 0]
         /\ LoopTop(i, 0)
    /\ UNCHANGED <<config, runpc, submitted, waits, notified, last_note,
                   results, format_in, final_text, emitted>>
    /\ UNCHANGED others

WaitTime_beforeIncrement(r) == Pow2(r - 1)

\* wait_time = 2**retries
WaitTime(r) == Pow2(r)

CanRetry_early(r) == r < max_retries

\* if retries <= self.max_retries
CanRetry(r) == r <= max_retries

RetrySteps_waitFirst == <<"wait", "notify">>

\* self.progress_updated.emit(-1, ...) and then self.msleep(wait_time * 1000)
RetrySteps == <<"notify", "wait">>

FailureReturn_generic(text) == <<FALSE, <<"Maximum retries exceeded">>>>

\* return False, response / return False, str(e)
FailureReturn(text) == <<FALSE, text>>

\* the two failure branches of process_image: the counter is incremented,
\* then either the notification is emitted and the thread sleeps, or the
\* failure is returned
\* one retry counter shared by all the workers
FailedAttempt_sharedCounter(i, text, msg) ==
    LET r == retries[i] + 1 IN
    /\ retries' = [j \in Units |-> IF st[j] = "returned" \/ st[j] = "collected"
                                   THEN retries[j] ELSE r]
    /\ IF CanRetry(r)
       THEN /\ notified' = [notified EXCEPT ![i] = @ + 1]
            /\ last_note' = [last_note EXCEPT ![i] = ProgressSig(-1, msg)]
            /\ waits' = [waits EXCEPT ![i] = Append(@, WaitTime(r))]
            /\ steps' = [steps EXCEPT ![i] = @ \o RetrySteps]
            /\ st' = [st EXCEPT ![i] = "sleeping"]
            /\ ret' = ret
       ELSE /\ notified' = notified
            /\ last_note' = last_note
            /\ waits' = waits
            /\ steps' = steps
            /\ st' = [st EXCEPT ![i] = "returned"]
            /\ ret' = [ret EXCEPT ![i] = FailureReturn(text)]

FailedAttempt(i, text, msg) ==
    LET r == retries[i] + 1 IN
    /\ retries' = [retries EXCEPT ![i] = r]
    /\ IF CanRetry(r)
       THEN /\ notified' = [notified EXCEPT ![i] = @ + 1]
            /\ last_note' = [last_note EXCEPT ![i] = ProgressSig(-1, msg)]
            /\ waits' = [waits EXCEPT ![i] = Append(@, WaitTime(r))]
            /\ steps' = [steps EXCEPT ![i] = @ \o RetrySteps]
            /\ st' = [st EXCEPT ![i] = "sleeping"]
            /\ ret' = ret
       ELSE /\ notified' = notified
            /\ last_note' = last_note
            /\ waits' = waits
            /\ steps' = steps
            /\ st' = [st EXCEPT ![i] = "returned"]
            /\ ret' = [ret EXCEPT ![i] = FailureReturn(text)]

\* the success is obtained but the loop goes round
CallSucceeds_noReturn(i) ==
    /\ st[i] = "attempting"
    /\ ret' = [ret EXCEPT ![i] = <<TRUE, Response(i, attempts[i])>>]
    /\ attempts' = [attempts EXCEPT ![i] = @ + 1]
    /\ steps' = [steps EXCEPT ![i] = Append(@, "call")]
    /\ UNCHANGED <<config, runpc, submitted, work_queue, st, retries,
                   waits, notified, last_note, results, format_in,
                   final_text, emitted>>
    /\ UNCHANGED others

\* the worker appends its outcome to results itself
CallSucceeds_appends(i) ==
    /\ st[i] = "attempting"
    /\ st' = [st EXCEPT ![i] = "returned"]
    /\ ret' = [ret EXCEPT ![i] = <<TRUE, Response(i, attempts[i])>>]
    /\ results' = Append(results, <<i, TRUE, Response(i, attempts[i]), i + 1>>)
    /\ UNCHANGED <<config, runpc, submitted, work_queue, retries, attempts,
                   waits, steps, notified, last_note, format_in,
                   final_text, emitted>>
    /\ UNCHANGED others

\* openai_client.process_image returns (True, response)
CallSucceeds(i) ==
    /\ st[i] = "attempting"
    /\ st' = [st EXCEPT ![i] = "returned"]
    /\ ret' = [ret EXCEPT ![i] = <<TRUE, Response(i, attempts[i])>>]
    /\ UNCHANGED <<config, runpc, submitted, work_queue, retries, attempts,
                   waits, steps, notified, last_note, results, format_in,
                   final_text, emitted>>
    /\ UNCHANGED others

\* openai_client.process_image returns (False, response)
CallFails(i) ==
    /\ st[i] = "attempting"
    /\ FailedAttempt(i, ApiError(i, attempts[i]),
                     RetryingMsg(i + 1, retries[i] + 1, max_retries))
    /\ UNCHANGED <<config, runpc, submitted, work_queue, attempts,
                   results, format_in, final_text, emitted>>
    /\ UNCHANGED others

\* the exception is returned at once, without retry
CallRaises_immediate(i) ==
    /\ st[i] = "attempting"
    /\ retries' = [retries EXCEPT ![i] = @ + 1]
    /\ st' = [st EXCEPT ![i] = "returned"]
    /\ ret' = [ret EXCEPT ![i] = <<FALSE, ExcText(i, attempts[i])>>]
    /\ UNCHANGED <<config, runpc, submitted, work_queue, attempts, waits,
                   steps, notified, last_note, results, format_in,
                   final_text, emitted>>
    /\ UNCHANGED others

\* the exception leaves process_image and the work item yields no outcome
CallRaises_lost(i) ==
    /\ st[i] = "attempting"
    /\ st' = [st EXCEPT ![i] = "lost"]
    /\ UNCHANGED <<config, runpc, submitted, work_queue, retries, attempts,
                   waits, steps, notified, last_note, ret, results,
                   format_in, final_text, emitted>>
    /\ UNCHANGED others

\* load_image or openai_client.process_image raises
CallRaises(i) ==
    /\ st[i] = "attempting"
    /\ FailedAttempt(i, ExcText(i, attempts[i]),
                     ErrorRetryMsg(i + 1, retries[i] + 1, max_retries))
    /\ UNCHANGED <<config, runpc, submitted, work_queue, attempts,
                   results, format_in, final_text, emitted>>
    /\ UNCHANGED others

\* self.msleep(wait_time * 1000) returns and the loop goes round
Wake(i) ==
    /\ st[i] = "sleeping"
    /\ LoopTop(i, retries[i])
    /\ UNCHANGED <<config, runpc, submitted, work_queue, retries, waits,
                   notified, last_note, results, format_in, final_text,
                   emitted>>
    /\ UNCHANGED others

ResultTuple_byArrival(i, idx, success, text) == <<i, success, text, i + 1>>

\* the tuple run appends for the future of unit idx, the i-th to complete
ResultTuple(i, idx, success, text) == <<idx, success, text, idx + 1>>

\* one iteration of "for i, future in enumerate(as_completed(...))"
Collect(idx) ==
    /\ runpc = "running"
    /\ submitted = Len(images)
    /\ st[idx] = "returned"
    /\ LET i == Len(results) IN
         /\ results' = Append(results, ResultTuple(i, idx, ret[idx][1], ret[idx][2]))
         /\ emitted' = Append(emitted,
                ProgressSig(ProgressPercent(i + 1, Len(images)),
                            ProcessedMsg(idx + 1, Len(images))))
    /\ st' = [st EXCEPT ![idx] = "collected"]
    /\ UNCHANGED <<config, runpc, submitted, work_queue, retries, attempts,
                   waits, steps, notified, last_note, ret, format_in,
                   final_text>>
    /\ UNCHANGED others

AllCollected_returned ==
    /\ submitted = Len(images)
    /\ \A i \in Units : st[i] \in {"returned", "collected"}

AllCollected_firstOnly ==
    /\ submitted = Len(images)
    /\ \E i \in Units : st[i] = "collected"

AllCollected_skipEmpty ==
    /\ submitted = Len(images)
    /\ Len(images) > 0
    /\ \A i \in Units : st[i] = "collected"

\* the as_completed iterator is exhausted and the executor has shut down
AllCollected ==
    /\ submitted = Len(images)
    /\ \A i \in Units : st[i] = "collected"

\* the end of run: sort, format_results, processing_complete.emit
Finish ==
    /\ runpc = "running"
    /\ AllCollected
    /\ \E sorted \in {SortByIdx(results)} :    \* results after the sort in place
         /\ results' = sorted
         /\ format_in' = sorted
         /\ final_text' = format_results(output_format, sorted)
         /\ emitted' = Append(emitted, CompleteSig(format_results(output_format, sorted)))
    /\ runpc' = "done"
    /\ UNCHANGED <<config, submitted, work_queue, st, retries, attempts,
                   waits, steps, notified, last_note, ret>>
    /\ UNCHANGED others

Next ==
    \/ Submit
    \/ StartWork
    \/ \E i \in Units : CallSucceeds(i)
    \/ \E i \in Units : CallFails(i)
    \/ \E i \in Units : CallRaises(i)
    \/ \E i \in Units : Wake(i)
    \/ \E i \in Units : Collect(i)
    \/ Finish

Spec == Init /\ [][Next]_vars

\* every remote call returns or raises, every sleep ends and the threads are
\* scheduled: a step that can be taken is eventually taken
FairSpec == Init /\ [][Next]_vars /\ WF_vars(Next)

----------------------------------------------------------------------------
(* format_results on its own: the result list is any list run can hand it  *)
(* (indices 0 .. n-1 in order, page_num = idx + 1), with arbitrary         *)
(* outcomes and texts.  The variables of the workers are not used.         *)

Texts == {<<>>, <<"alpha">>, <<"beta", "\n", "\n", "gamma">>}

ResultLists(n) ==
    {[k \in 1 .. n |-> <<k - 1, f[k][1], f[k][2], k>>] :
        f \in [1 .. n -> BOOLEAN \X Texts]}

InitFormat ==
    /\ \E n \in 0 .. MaxResults :
         /\ images = [k \in 1 .. n |-> "img" \o ToString(k)]
         /\ results \in ResultLists(n)
    /\ parallelism = 1
    /\ max_retries = 0
    /\ output_format \in {"md", "txt"}
    /\ runpc = "format"
    /\ submitted = Len(images)
    /\ work_queue = <<>>
    /\ st = [i \in Units |-> "collected"]
    /\ retries = [i \in Units |-> 0]
    /\ attempts = [i \in Units |-> 0]
    /\ waits = [i \in Units |-> <<>>]
    /\ steps = [i \in Units |-> <<>>]
    /\ notified = [i \in Units |-> 0]
    /\ last_note = [i \in Units |-> NoNote]
    /\ ret = [i \in Units |-> NoRet]
    /\ format_in = <<>>
    /\ final_text = <<>>
    /\ emitted = <<>>
    /\ OthersIdle

\* final_text = self.format_results(results)
FormatCall ==
    /\ runpc = "format"
    /\ format_in' = results
    /\ final_text' = format_results(output_format, results)
    /\ runpc' = "formatted"
    /\ UNCHANGED <<config, submitted, work_queue, st, retries, attempts,
                   waits, steps, notified, last_note, ret, results, emitted>>
    /\ UNCHANGED others

NextFormat == FormatCall

SpecFormat == InitFormat /\ [][NextFormat]_vars

----------------------------------------------------------------------------
(* The collecting loop of run on its own: every worker has already         *)
(* returned a success at its first attempt, and the outcomes arrive in     *)
(* page order.                                                             *)

InitProgress ==
    /\ \E n \in 1 .. MaxTotal : images = [k \in 1 .. n |-> "img" \o ToString(k)]
    /\ parallelism = 1
    /\ max_retries = 0
    /\ output_format \in {"md", "txt"}
    /\ runpc = "running"
    /\ submitted = Len(images)
    /\ work_queue = <<>>
    /\ st = [i \in Units |-> "returned"]
    /\ retries = [i \in Units |-> 0]
    /\ attempts = [i \in Units |-> 1]
    /\ waits = [i \in Units |-> <<>>]
    /\ steps = [i \in Units |-> <<"call">>]
    /\ notified = [i \in Units |-> 0]
    /\ last_note = [i \in Units |-> NoNote]
    /\ ret = [i \in Units |-> <<TRUE, Response(i, 1)>>]
    /\ results = <<>>
    /\ format_in = <<>>
    /\ final_text = <<>>
    /\ emitted = <<>>
    /\ OthersIdle

\* the next future as_completed yields is the one of the next page
CollectInOrder ==
    /\ Len(results) < Len(images)
    /\ Collect(Len(results))

NextProgress ==
    \/ CollectInOrder
    \/ Finish

SpecProgress == InitProgress /\ [][NextProgress]_vars

----------------------------------------------------------------------------
(* Reconfiguration of the shared client while worker threads call it.  The  *)
(* GUI thread and the worker threads interleave between any two attribute   *)
(* accesses; the batch itself is left out.                                  *)

\* no ProcessingTask is looked at
BatchIdle ==
    /\ images = <<>>
    /\ parallelism = 1
    /\ max_retries = 0
    /\ output_format = "md"
    /\ runpc = "idle"
    /\ submitted = 0
    /\ work_queue = <<>>
    /\ st = <<>>
    /\ retries = <<>>
    /\ attempts = <<>>
    /\ waits = <<>>
    /\ steps = <<>>
    /\ notified = <<>>
    /\ last_note = <<>>
    /\ ret = <<>>
    /\ results = <<>>
    /\ format_in = <<>>
    /\ final_text = <<>>
    /\ emitted = <<>>

InitClient ==
    /\ BatchIdle
    /\ ClientIdle
    /\ GuiIdle
    /\ AssistantsIdle

\* configure_openai: self.openai_client.update_config(new_config), up to the
\* call of setup_client
update_config ==
    /\ upd_pc = 0
    /\ updates < MaxUpdates
    /\ updates' = updates + 1
    /\ client_config' = updates + 1
    /\ upd_pc' = 1
    /\ UNCHANGED <<client_fields, call_pc, call_params>>
    /\ UNCHANGED vars
    /\ UNCHANGED <<gvars, avars>>

\* one assignment of setup_client
setup_client ==
    /\ upd_pc \in 1 .. Len(WriteOrder)
    /\ client_fields' = [client_fields EXCEPT ![WriteOrder[upd_pc]] = client_config]
    /\ upd_pc' = IF upd_pc = Len(WriteOrder) THEN 0 ELSE upd_pc + 1
    /\ UNCHANGED <<client_config, updates, call_pc, call_params>>
    /\ UNCHANGED vars
    /\ UNCHANGED <<gvars, avars>>

\* one attribute read of OpenAIClient.process_image in a worker thread
ReadAttribute(c) ==
    /\ call_pc[c] \in 1 .. Len(ReadOrder)
    /\ call_params' = [call_params EXCEPT
                         ![c] = Append(@, client_fields[ReadOrder[call_pc[c]]])]
    /\ call_pc' = [call_pc EXCEPT ![c] = @ + 1]
    /\ UNCHANGED <<client_config, client_fields, upd_pc, updates>>
    /\ UNCHANGED vars
    /\ UNCHANGED <<gvars, avars>>

NextClient ==
    \/ update_config
    \/ setup_client
    \/ \E c \in Calls : ReadAttribute(c)

SpecClient == InitClient /\ [][NextClient]_cvars

----------------------------------------------------------------------------
(* The main window (src/gui/main_window.py): browse_file, process_file and  *)
(* processing_finished run on the GUI thread, one at a time.  The batch of  *)
(* a ProcessingTask is one step: its thread ends by emitting                *)
(* processing_complete, which is queued for the GUI thread.                 *)

InitGui ==
    /\ BatchIdle
    /\ ClientIdle
    /\ AssistantsIdle
    /\ current_file = NoFile
    /\ image_paths = <<>>
    /\ process_btn = TRUE
    /\ processing_task = "none"
    /\ task_file = NoFile
    /\ task_images = <<>>
    /\ task_batch = 0
    /\ disk = UserFiles
    /\ batches = 0
    /\ app = "running"
    /\ has_api_key \in BOOLEAN
    /\ temp_match \in BOOLEAN

\* browse_file: the dialog returns the path of a file that exists
browse_file(f) ==
    /\ app = "running"
    /\ f \in disk
    /\ current_file' = f
    /\ UNCHANGED <<image_paths, process_btn, processing_task, task_file,
                   task_images, task_batch, disk, batches, app, has_api_key,
                   temp_match>>
    /\ UNCHANGED <<vars, cvars, avars>>

\* configure_openai: the dialog is accepted with an API key or with none
configure_openai(key) ==
    /\ app = "running"
    /\ has_api_key' = key
    /\ UNCHANGED <<current_file, image_paths, process_btn, processing_task,
                   task_file, task_images, task_batch, disk, batches, app,
                   temp_match>>
    /\ UNCHANGED <<vars, cvars, avars>>

\* process_file gets past its two early returns: the button was clicked, a
\* file is selected and the API key is set
Clicked ==
    /\ app = "running"
    /\ process_btn
    /\ current_file # NoFile
    /\ has_api_key

ProcessBtnInBatch_left == TRUE

\* self.process_btn.setEnabled(False)
ProcessBtnInBatch == FALSE

\* self.processing_task = ProcessingTask(self.image_paths, ...); start()
StartTask(paths, b) ==
    /\ process_btn' = ProcessBtnInBatch
    /\ image_paths' = paths
    /\ processing_task' = "running"
    /\ task_file' = current_file
    /\ task_images' = paths
    /\ task_batch' = b

\* the branch of .pptx and .ppt: image_paths is not assigned
ProcessPpt ==
    /\ Clicked
    /\ file_ext(current_file) \in {".pptx", ".ppt"}
    /\ StartTask(image_paths, 0)
    /\ UNCHANGED <<current_file, disk, batches, app, has_api_key, temp_match>>
    /\ UNCHANGED <<vars, cvars, avars>>

\* the branch of .pdf when convert_pdf_to_images returns
ProcessPdf ==
    /\ Clicked
    /\ file_ext(current_file) = ".pdf"
    /\ current_file \in disk
    /\ ~Unreadable(current_file)
    /\ batches < MaxBatches
    /\ batches' = batches + 1
    /\ disk' = disk \cup Range(convert_pdf_to_images(current_file, batches + 1))
    /\ StartTask(convert_pdf_to_images(current_file, batches + 1), batches + 1)
    /\ UNCHANGED <<current_file, app, has_api_key, temp_match>>
    /\ UNCHANGED <<vars, cvars, avars>>

\* the branch of .pdf when fitz.open raises: the exception leaves the slot
\* process_file, and PyQt either aborts the application or goes on
ProcessPdfRaises ==
    /\ Clicked
    /\ file_ext(current_file) = ".pdf"
    /\ Unreadable(current_file) \/ current_file \notin disk
    /\ process_btn' = ProcessBtnInBatch
    /\ app' \in {"running", "aborted"}
    /\ UNCHANGED <<current_file, image_paths, processing_task, task_file,
                   task_images, task_batch, disk, batches, has_api_key,
                   temp_match>>
    /\ UNCHANGED <<vars, cvars, avars>>

\* the branch of a single image file
ProcessImage ==
    /\ Clicked
    /\ file_ext(current_file) \notin {".pptx", ".ppt", ".pdf"}
    /\ StartTask(<<current_file>>, 0)
    /\ UNCHANGED <<current_file, disk, batches, app, has_api_key, temp_match>>
    /\ UNCHANGED <<vars, cvars, avars>>

\* ProcessingTask.run ends: self.processing_complete.emit(final_text)
TaskCompletes ==
    /\ app = "running"
    /\ processing_task = "running"
    /\ processing_task' = "complete"
    /\ UNCHANGED <<current_file, image_paths, process_btn, task_file,
                   task_images, task_batch, disk, batches, app, has_api_key,
                   temp_match>>
    /\ UNCHANGED <<vars, cvars, avars>>

\* the files the cleanup of processing_finished removes
Removed ==
    IF Len(image_paths) > 1 /\ InTempDir(dirname(image_paths[1]))
    THEN Range(image_paths) \cap disk
    ELSE {}

\* processing_finished, the slot of processing_complete
processing_finished ==
    /\ app = "running"
    /\ processing_task = "complete"
    /\ processing_task' = "none"
    /\ process_btn' = TRUE
    /\ disk' = disk \ Removed
    /\ UNCHANGED <<current_file, image_paths, task_file, task_images,
                   task_batch, batches, app, has_api_key, temp_match>>
    /\ UNCHANGED <<vars, cvars, avars>>

NextGui ==
    \/ \E f \in disk : browse_file(f)
    \/ \E key \in BOOLEAN : configure_openai(key)
    \/ ProcessPpt
    \/ ProcessPdf
    \/ ProcessPdfRaises
    \/ ProcessImage
    \/ TaskCompletes
    \/ processing_finished

SpecGui == InitGui /\ [][NextGui]_gvars

----------------------------------------------------------------------------
(* The assistants of the main window (src/gui/main_window.py) and of the    *)
(* AssistantManager dialog (src/gui/assistant_manager.py).  The dialog is   *)
(* modal: while it is open the main window takes no input.  A slot that     *)
(* calls other slots is one step; the widgets it goes through are the       *)
(* record w.                                                                *)

\* the names the user types into an input dialog
TypedNames == {<<"a">>, <<"b">>, <<"a", ".json">>}

\* the prompts the user types
PromptValues == {EmptyPrompts, <<"s", "u">>}

Widgets == [last |-> last_assistant, text |-> combo_text, prompts |-> prompts]

\* load_selected_assistant(name) with the files s and the combo items
load_selected_assistant(s, items, w, name) ==
    IF name = NoName \/ ~Stored(s, name)
    THEN w
    ELSE [last |-> name,
          prompts |-> s[FileOf(name)],
          text |-> IF name \in items THEN name ELSE w.text]

\* assistant_combo.setCurrentText(name): a change of the current text runs
\* the slot load_selected_assistant
setCurrentText(s, items, w, name) ==
    IF name \in items /\ name # w.text
    THEN load_selected_assistant(s, items, [w EXCEPT !.text = name], name)
    ELSE w

\* refresh_assistant_list: clear() empties the text, the first addItem makes
\* its item current, which runs the slot load_selected_assistant
refresh_assistant_list(s, w, first) ==
    IF get_assistants(s) = {}
    THEN [w EXCEPT !.text = NoName]
    ELSE load_selected_assistant(s, get_assistants(s),
                                 [w EXCEPT !.text = first], first)

\* load_last_assistant
load_last_assistant(s, items, w) ==
    IF w.last # NoName /\ w.last \in get_assistants(s)
    THEN load_selected_assistant(s, items,
                                 setCurrentText(s, items, w, w.last), w.last)
    ELSE w

\* the widgets and the configuration after a slot
Apply(w) ==
    /\ last_assistant' = w.last
    /\ combo_text' = w.text
    /\ prompts' = w.prompts

InitAssist ==
    /\ BatchIdle
    /\ ClientIdle
    /\ GuiIdle
    /\ store \in {NoFiles, [f \in {FileOf(<<"a">>)} |-> <<"s", "u">>]}
    /\ last_assistant = NoName
    /\ combo_items = get_assistants(store)
    /\ combo_text \in (IF combo_items = {} THEN {NoName} ELSE combo_items)
    /\ prompts = EmptyPrompts
    /\ manager_open = FALSE

\* create_new_assistant with a name typed and accepted
create_new_assistant(name) ==
    /\ ~manager_open
    /\ IF name \in get_assistants(store)
       THEN UNCHANGED <<store, last_assistant, combo_items, combo_text, prompts>>
       ELSE \E s2 \in {save_assistant(store, name, EmptyPrompts)} :
              \E first \in get_assistants(s2) :
                /\ store' = s2
                /\ combo_items' = get_assistants(s2)
                /\ Apply(setCurrentText(s2, get_assistants(s2),
                            refresh_assistant_list(s2, Widgets, first), name))
    /\ UNCHANGED manager_open
    /\ UNCHANGED <<vars, cvars, gvars>>

\* save_current_assistant with an assistant selected
save_current_assistant ==
    /\ ~manager_open
    /\ combo_text # NoName
    /\ store' = save_assistant(store, combo_text, prompts)
    /\ last_assistant' = combo_text
    /\ UNCHANGED <<combo_items, combo_text, prompts, manager_open>>
    /\ UNCHANGED <<vars, cvars, gvars>>

\* the user picks another item of assistant_combo
SelectAssistant(name) ==
    /\ ~manager_open
    /\ name \in combo_items
    /\ name # combo_text
    /\ Apply(load_selected_assistant(store, combo_items,
                                     [Widgets EXCEPT !.text = name], name))
    /\ UNCHANGED <<store, combo_items, manager_open>>
    /\ UNCHANGED <<vars, cvars, gvars>>

\* the user types into system_prompt and user_prompt
EditPrompts(p) ==
    /\ ~manager_open
    /\ prompts' = p
    /\ UNCHANGED <<store, last_assistant, combo_items, combo_text, manager_open>>
    /\ UNCHANGED <<vars, cvars, gvars>>

\* manage_assistants up to dialog.exec()
manage_assistants ==
    /\ ~manager_open
    /\ manager_open' = TRUE
    /\ UNCHANGED <<store, last_assistant, combo_items, combo_text, prompts>>
    /\ UNCHANGED <<vars, cvars, gvars>>

\* AssistantManager.rename_assistant on a list item, a new name accepted
rename_assistant(item, new_name) ==
    /\ manager_open
    /\ item \in get_assistants(store)
    /\ IF new_name # item /\ new_name \notin get_assistants(store)
          /\ Stored(store, item)
       THEN /\ store' = remove_assistant(
                            save_assistant(store, new_name, store[FileOf(item)]),
                            item)
            /\ last_assistant' = IF last_assistant = item THEN new_name
                                 ELSE last_assistant
       ELSE UNCHANGED <<store, last_assistant>>
    /\ UNCHANGED <<combo_items, combo_text, prompts, manager_open>>
    /\ UNCHANGED <<vars, cvars, gvars>>

AfterDelete_kept(name) == last_assistant

\* last_assistant after the deletion of name
AfterDelete(name) == IF last_assistant = name THEN NoName ELSE last_assistant

\* AssistantManager.delete_assistant on a list item, confirmed
delete_assistant(item) ==
    /\ manager_open
    /\ item \in get_assistants(store)
    /\ store' = remove_assistant(store, item)
    /\ last_assistant' = AfterDelete(item)
    /\ UNCHANGED <<combo_items, combo_text, prompts, manager_open>>
    /\ UNCHANGED <<vars, cvars, gvars>>

\* AssistantManager.clone_assistant on a list item, a new name accepted
clone_assistant(item, new_name) ==
    /\ manager_open
    /\ item \in get_assistants(store)
    /\ IF new_name \notin get_assistants(store) /\ Stored(store, item)
       THEN store' = save_assistant(store, new_name, store[FileOf(item)])
       ELSE UNCHANGED store
    /\ UNCHANGED <<last_assistant, combo_items, combo_text, prompts, manager_open>>
    /\ UNCHANGED <<vars, cvars, gvars>>

\* the dialog is closed with Close: refresh_assistant_list, load_last_assistant
CloseAccepted ==
    /\ manager_open
    /\ manager_open' = FALSE
    /\ combo_items' = get_assistants(store)
    /\ \E first \in (IF get_assistants(store) = {} THEN {NoName}
                     ELSE get_assistants(store)) :
          Apply(load_last_assistant(store, get_assistants(store),
                    refresh_assistant_list(store, Widgets, first)))
    /\ UNCHANGED store
    /\ UNCHANGED <<vars, cvars, gvars>>

\* the dialog is closed otherwise: exec() returns 0
CloseRejected ==
    /\ manager_open
    /\ manager_open' = FALSE
    /\ UNCHANGED <<store, last_assistant, combo_items, combo_text, prompts>>
    /\ UNCHANGED <<vars, cvars, gvars>>

NextAssist ==
    \/ \E name \in TypedNames : create_new_assistant(name)
    \/ save_current_assistant
    \/ \E name \in combo_items : SelectAssistant(name)
    \/ \E p \in PromptValues : EditPrompts(p)
    \/ manage_assistants
    \/ \E item \in get_assistants(store), new_name \in TypedNames :
          rename_assistant(item, new_name)
    \/ \E item \in get_assistants(store) : delete_assistant(item)
    \/ \E item \in get_assistants(store), new_name \in TypedNames :
          clone_assistant(item, new_name)
    \/ CloseAccepted
    \/ CloseRejected

SpecAssist == InitAssist /\ [][NextAssist]_avars

----------------------------------------------------------------------------
(* Properties *)

Finished(i) == st[i] \in {"returned", "collected"}

\* every attempt of unit i so far has failed
EveryAttemptFailed(i) == attempts[i] >= 1 /\ retries[i] = attempts[i]

\* the only attempt of unit i succeeded
FirstAttemptSucceeded(i) == Finished(i) /\ attempts[i] = 1 /\ retries[i] = 0

IsProgress(e) == e[1] = "progress_updated"

FormatDone == runpc \in {"done", "formatted"}

\* C1 Order preservation: whatever the order in which the workers complete,
\* the list run hands to format_results is strictly ascending in the
\* original page index.
C1_OrderPreserved ==
    runpc = "done" =>
        /\ format_in = results
        /\ Len(format_in) = Len(images)
        /\ \A k \in 1 .. Len(format_in) - 1 : format_in[k][1] < format_in[k + 1][1]

\* two pages, the second one collected first, and the run has finished
C1_Witness ==
    /\ runpc = "done"
    /\ Len(images) = 2
    /\ emitted[1] = ProgressSig(50, ProcessedMsg(2, 2))

\* C2 Exactly one outcome per unit: no index is ever collected twice, and
\* when run has finished collecting the indices in results are exactly the
\* indices of the submitted images.
C2_ExactlyOneOutcome ==
    /\ \A a, b \in 1 .. Len(results) : results[a][1] = results[b][1] => a = b
    /\ \A a \in 1 .. Len(results) : results[a][1] \in Units
    /\ runpc = "done" =>
        /\ Len(results) = Len(images)
        /\ {results[k][1] : k \in 1 .. Len(results)} = Units

\* a finished run of two pages in which one page failed and one succeeded
C2_Witness ==
    /\ runpc = "done"
    /\ Len(results) = 2
    /\ \E a, b \in 1 .. 2 : results[a][2] /\ ~results[b][2]

\* C3 Concurrency bound: at most parallelism units are inside process_image
\* at any time, a unit sleeping in backoff counted among them, so at most
\* parallelism remote calls are in flight.
C3_ConcurrencyBound ==
    /\ Cardinality({i \in Units : st[i] = "attempting"}) <= parallelism
    /\ Cardinality({i \in Units : st[i] \in {"attempting", "sleeping"}}) <= parallelism

\* more pages than workers, every worker taken, one of them by a sleeping
\* unit, and a page still waiting in the queue
C3_Witness ==
    /\ Len(images) > parallelism
    /\ Cardinality({i \in Units : st[i] \in {"attempting", "sleeping"}}) = parallelism
    /\ \E i \in Units : st[i] = "sleeping"
    /\ work_queue # <<>>

\* C4 Retry bound: no unit is attempted more than max_retries + 1 times, and
\* a finished unit whose every attempt failed (reported or raised) was
\* attempted exactly max_retries + 1 times and is recorded as failed.
C4_RetryBound ==
    \A i \in Units :
        /\ attempts[i] <= max_retries + 1
        /\ (Finished(i) /\ EveryAttemptFailed(i)) =>
              /\ attempts[i] = max_retries + 1
              /\ ret[i][1] = FALSE
        /\ (st[i] = "collected" /\ EveryAttemptFailed(i)) =>
              \E k \in 1 .. Len(results) : results[k][1] = i /\ results[k][2] = FALSE

\* a unit that failed three times with max_retries = 2, the last failure an
\* exception, and whose failure was collected
C4_Witness ==
    /\ max_retries = 2
    /\ \E i \in Units :
         /\ st[i] = "collected"
         /\ attempts[i] = 3
         /\ ret[i] = <<FALSE, ExcText(i, 3)>>

\* C5 Backoff growth: the k-th wait of a unit is 2^k seconds, there is one
\* wait before every attempt after the first, and a unit that exhausted its
\* retries waited 2^1, ..., 2^max_retries.
C5_BackoffGrowth ==
    \A i \in Units :
        /\ \A k \in 1 .. Len(waits[i]) : waits[i][k] = 2 ^ k
        /\ Len(waits[i]) <= max_retries
        /\ st[i] = "attempting" => Len(waits[i]) = attempts[i] - 1
        /\ st[i] = "sleeping" => Len(waits[i]) = attempts[i]
        /\ (Finished(i) /\ EveryAttemptFailed(i)) => Len(waits[i]) = max_retries

\* a unit that exhausted two retries after waiting 2 and then 4 seconds
C5_Witness ==
    \E i \in Units :
        /\ Finished(i)
        /\ ret[i][1] = FALSE
        /\ waits[i] = <<2, 4>>

\* C6 Failure isolation: when one unit failed at every attempt and every
\* other unit succeeded at its only attempt, the final results hold one
\* failed outcome, at that unit's index with that unit's error text, and
\* every other outcome is successful with its own response text.
C6_FailureIsolation ==
    runpc = "done" =>
        \A f \in Units :
            (EveryAttemptFailed(f)
             /\ \A j \in Units \ {f} : FirstAttemptSucceeded(j)) =>
                /\ Len(results) = Len(images)
                /\ results[f + 1][1] = f
                /\ results[f + 1][2] = FALSE
                /\ results[f + 1][3] \in {ApiError(f, max_retries + 1),
                                          ExcText(f, max_retries + 1)}
                /\ \A j \in Units \ {f} :
                      results[j + 1] = <<j, TRUE, Response(j, 1), j + 1>>
                /\ Cardinality({k \in 1 .. Len(results) : ~results[k][2]}) = 1

\* two pages with two workers: page 1 always fails, page 2 succeeds at once
\* and is collected first
C6_Witness ==
    /\ runpc = "done"
    /\ Len(images) = 2
    /\ parallelism = 2
    /\ max_retries >= 1
    /\ EveryAttemptFailed(0)
    /\ FirstAttemptSucceeded(1)
    /\ emitted[1] = ProgressSig(50, ProcessedMsg(2, 2))

\* C7 Progress monotonicity: the percentages run emits never decrease, and
\* with at least one page the last one emitted before processing_complete
\* is 100.
C7_ProgressMonotonic ==
    /\ \A a, b \in 1 .. Len(emitted) :
          (a < b /\ IsProgress(emitted[a]) /\ IsProgress(emitted[b]))
              => emitted[a][2] <= emitted[b][2]
    /\ (runpc = "done" /\ Len(images) >= 1) =>
          /\ Len(emitted) >= 2
          /\ emitted[Len(emitted)][1] = "processing_complete"
          /\ IsProgress(emitted[Len(emitted) - 1])
          /\ emitted[Len(emitted) - 1][2] = 100

\* a finished run of two pages, some page having been retried, whose
\* percentages were 50 and then 100
C7_Witness ==
    /\ runpc = "done"
    /\ Len(emitted) = 3
    /\ emitted[1][2] = 50
    /\ emitted[2][2] = 100
    /\ \E i \in Units : notified[i] > 0

\* C8 Empty batch: with no image nothing is submitted, attempted or
\* notified, no progress signal is emitted, the run can always finish, and
\* it finishes with an empty result list and the empty string.
C8_EmptyBatch ==
    Len(images) = 0 =>
        /\ results = <<>>
        /\ submitted = 0
        /\ work_queue = <<>>
        /\ DOMAIN attempts = {}
        /\ DOMAIN notified = {}
        /\ \A k \in 1 .. Len(emitted) : ~IsProgress(emitted[k])
        /\ runpc = "running" => ENABLED Finish
        /\ runpc = "done" =>
              /\ format_in = <<>>
              /\ final_text = <<>>
              /\ emitted = <<CompleteSig(<<>>)>>

\* the run of an empty image list has finished
C8_Witness ==
    /\ Len(images) = 0
    /\ runpc = "done"
    /\ emitted = <<CompleteSig(<<>>)>>

\* where the block of the k-th outcome starts in final_text
RECURSIVE BlockStart(_)
BlockStart(k) ==
    IF k = 1 THEN 1
    ELSE BlockStart(k - 1) + Len(Block(output_format, format_in[k - 1])) + 2

\* the part of final_text that renders the k-th outcome
Segment(k) ==
    SubSeq(final_text, BlockStart(k),
           BlockStart(k) + Len(Block(output_format, format_in[k])) - 1)

ErrorMarkers == {"> **Error processing page ", "--- Error processing page "}

Contains(seg, text) ==
    \E p \in 1 .. (Len(seg) - Len(text) + 1) :
        SubSeq(seg, p, p + Len(text) - 1) = text

\* C9 Formatter marking: in both output shapes a successful outcome is
\* rendered as its text verbatim, and a failed one as a block that opens
\* with the error marker followed by the 1-based page number (index + 1) and
\* that contains the error text.
C9_FormatterMarking ==
    FormatDone =>
        \A k \in 1 .. Len(format_in) :
            LET r == format_in[k]
                seg == Segment(k)
            IN  IF r[2]
                THEN seg = r[3]
                ELSE /\ Len(seg) > Len(r[3]) + 2
                     /\ seg[1] \in ErrorMarkers
                     /\ seg[2] = ToString(r[1] + 1)
                     /\ Contains(SubSeq(seg, 3, Len(seg)), r[3])

\* three outcomes, only the one at index 2 failed, markdown shape: the two
\* texts come first, verbatim and in order, then the marker of page 3
C9_Witness ==
    /\ runpc = "formatted"
    /\ output_format = "md"
    /\ Len(format_in) = 3
    /\ format_in[1][2] /\ format_in[2][2] /\ ~format_in[3][2]
    /\ format_in[1][3] = <<"alpha">>
    /\ format_in[2][3] = <<"beta", "\n", "\n", "gamma">>
    /\ format_in[3][3] = <<"alpha">>
    /\ SubSeq(final_text, 1, 10) =
          <<"alpha", "\n", "\n", "beta", "\n", "\n", "gamma", "\n", "\n",
            "> **Error processing page ">>
    /\ final_text[11] = "3"

\* C10 Formatter joining: final_text is the blocks of the outcomes, one per
\* outcome in the order of the list, with exactly two newlines between two
\* consecutive blocks and nothing before the first or after the last; the
\* list given to format_results is the list afterwards.
C10_FormatterJoining ==
    FormatDone =>
        LET n == Len(format_in)
            blk(k) == Block(output_format, format_in[k])
            end(k) == BlockStart(k) + Len(blk(k)) - 1
        IN  /\ results = format_in
            /\ n = 0 => final_text = <<>>
            /\ n >= 1 => Len(final_text) = end(n)
            /\ \A k \in 1 .. n : Segment(k) = blk(k)
            /\ \A k \in 1 .. n - 1 :
                  /\ final_text[end(k) + 1] = "\n"
                  /\ final_text[end(k) + 2] = "\n"
                  /\ BlockStart(k + 1) = end(k) + 3

\* three outcomes joined by two separators, the middle one a failure
C10_Witness ==
    /\ runpc = "formatted"
    /\ output_format = "txt"
    /\ Len(format_in) = 3
    /\ format_in[1][2] /\ ~format_in[2][2] /\ format_in[3][2]
    /\ format_in[1][3] = <<"alpha">>
    /\ format_in[3][3] = <<"alpha">>
    /\ Len(final_text) = 1 + 2 + Len(ErrorBlock("txt", 2, format_in[2][3])) + 2 + 1

\* C11 No retry on success: once an attempt of a unit succeeds,
\* process_image has returned (True, response of that call); the unit made
\* one attempt more than it had failures, and as many waits and retry
\* notifications as failures, at every later moment of the run.
C11_NoRetryOnSuccess ==
    \A i \in Units :
        /\ ret[i] # NoRet => Finished(i)
        /\ (Finished(i) /\ ret[i][1]) =>
              /\ attempts[i] = retries[i] + 1
              /\ ret[i][2] = Response(i, attempts[i])
              /\ Len(waits[i]) = retries[i]
              /\ notified[i] = retries[i]
              /\ steps[i][Len(steps[i])] = "call"

\* a unit that succeeded at its second attempt, seen when the run is over
C11_Witness ==
    /\ runpc = "done"
    /\ \E i \in Units :
         /\ ret[i] = <<TRUE, Response(i, 2)>>
         /\ attempts[i] = 2
         /\ waits[i] = <<2>>

\* C12 Exceptions equal reported failures: every attempt that does not
\* succeed, raised or reported, adds one to retries and then, by the same
\* test, either notifies and sleeps 2^retries seconds or returns a
\* (False, text) pair; the attempt never ends in any other way.
C12_ExceptionsLikeFailures ==
    [][\A i \in Units :
        (st[i] = "attempting" /\ st'[i] # "attempting"
         /\ ~(st'[i] = "returned" /\ ret'[i][1])) =>
            /\ retries'[i] = retries[i] + 1
            /\ IF retries'[i] <= max_retries
               THEN /\ st'[i] = "sleeping"
                    /\ waits'[i] = Append(waits[i], 2 ^ retries'[i])
                    /\ notified'[i] = notified[i] + 1
                    /\ last_note'[i][2] = -1
                    /\ ret'[i] = NoRet
               ELSE /\ st'[i] = "returned"
                    /\ Len(ret'[i]) = 2
                    /\ ret'[i][1] = FALSE
                    /\ waits'[i] = waits[i]
                    /\ notified'[i] = notified[i]
      ]_vars

\* a unit whose first attempt raised, whose second was reported failed and
\* whose third raised again, returned as failed
C12_Witness ==
    /\ max_retries = 2
    /\ \E i \in Units :
         /\ Finished(i)
         /\ ret[i] = <<FALSE, ExcText(i, 3)>>
         /\ last_note[i] = ProgressSig(-1, RetryingMsg(i + 1, 2, 2))

\* C13 Exhausted retries carry the last error: a unit returned as failed
\* carries the error text of its final attempt, the one numbered
\* max_retries + 1, reported or raised.
C13_LastErrorReturned ==
    \A i \in Units :
        (Finished(i) /\ ~ret[i][1]) =>
            /\ attempts[i] = max_retries + 1
            /\ ret[i][2] \in {ApiError(i, attempts[i]), ExcText(i, attempts[i])}

\* a unit whose second failure was an exception and whose third and last
\* one was reported: the reported error is the one returned
C13_Witness ==
    /\ max_retries = 2
    /\ \E i \in Units :
         /\ Finished(i)
         /\ last_note[i] = ProgressSig(-1, ErrorRetryMsg(i + 1, 2, 2))
         /\ ret[i] = <<FALSE, ApiError(i, 3)>>

\* the most steps unit i can still take part in: its submission, its start,
\* the end of each attempt left, each wake left, and its collection
UnitMeasure(i) ==
    CASE st[i] = "new" -> 2 * max_retries + 5
      [] st[i] = "queued" -> 2 * max_retries + 4
      [] st[i] = "attempting" -> 2 * (max_retries - retries[i]) + 2
      [] st[i] = "sleeping" -> 2 * (max_retries - retries[i]) + 3
      [] st[i] = "returned" -> 1
      [] OTHER -> 0

RECURSIVE SumMeasure(_)
SumMeasure(n) == IF n = 0 THEN 0 ELSE UnitMeasure(n - 1) + SumMeasure(n - 1)

\* the most steps the run can still take
RunMeasure == SumMeasure(Len(images)) + (IF runpc = "done" THEN 0 ELSE 1)

\* C14 Termination: as long as run has not emitted processing_complete some
\* step can be taken, and every step lowers a bound on the steps left, so
\* when every call returns or raises the run ends; it ends with one entry
\* per page and processing_complete, and if every attempt failed every
\* entry is a failure.
C14_Terminates ==
    /\ [](runpc = "done" \/ ENABLED Next)
    /\ [](RunMeasure >= 0)
    /\ [][RunMeasure' < RunMeasure]_vars
    /\ [](runpc = "done" =>
            /\ RunMeasure = 0
            /\ Len(results) = Len(images)
            /\ emitted[Len(emitted)] = CompleteSig(final_text)
            /\ (\A i \in Units : EveryAttemptFailed(i)) =>
                  \A k \in 1 .. Len(results) : ~results[k][2])

\* the run of two pages ended with two failures
C14_Witness ==
    /\ runpc = "done"
    /\ Len(images) = 2
    /\ max_retries = 2
    /\ \A i \in Units : EveryAttemptFailed(i)
    /\ \A k \in 1 .. 2 : ~results[k][2]

\* round(k / n * 100) as Python rounds: to nearest, a tie to the even one
RoundHalfEven(k, n) ==
    LET x == k * 100
        q == x \div n
        rem == x % n
    IN  IF 2 * rem < n THEN q
        ELSE IF 2 * rem > n THEN q + 1
        ELSE IF q % 2 = 0 THEN q ELSE q + 1

\* C15 as stated: the k-th progress event carries round(k / N * 100).
C15_RoundedPercent ==
    \A k \in 1 .. Len(emitted) :
        IsProgress(emitted[k]) => emitted[k][2] = RoundHalfEven(k, Len(images))

\* C15 as amended: the k-th progress event carries k / N * 100 rounded
\* down to an integer (66 for k = 2, N = 3).
C15_TruncatedPercent ==
    \A k \in 1 .. Len(emitted) :
        IsProgress(emitted[k]) =>
            /\ emitted[k][2] * Len(images) <= k * 100
            /\ k * 100 < (emitted[k][2] + 1) * Len(images)

\* the second of three outcomes has been collected: 66
C15_Witness ==
    /\ Len(images) = 3
    /\ Len(emitted) >= 2
    /\ emitted[2][2] = 66

\* C16 One progress event per collected outcome: while run collects, the
\* k-th signal is the progress event of the k-th outcome collected and its
\* message names that outcome's 1-based page; at the end there are N of
\* them, one per page.
C16_OneEventPerOutcome ==
    /\ runpc = "running" =>
          /\ Len(emitted) = Len(results)
          /\ \A k \in 1 .. Len(results) :
                /\ IsProgress(emitted[k])
                /\ emitted[k][3] = <<"Processed page ", ToString(results[k][1] + 1),
                                     "/", ToString(Len(images))>>
    /\ runpc = "done" =>
          /\ Len(emitted) = Len(images) + 1
          /\ {emitted[k][3] : k \in 1 .. Len(images)} =
                {<<"Processed page ", ToString(p), "/", ToString(Len(images))>> :
                    p \in 1 .. Len(images)}

\* the first outcome collected is the one of page 2
C16_Witness ==
    /\ runpc = "running"
    /\ Len(results) = 1
    /\ results[1][1] = 1
    /\ emitted = <<ProgressSig(50, <<"Processed page ", "2", "/", "2">>)>>

\* C17 as stated: a retry notification is emitted only after that retry's
\* wait.
C17_WaitBeforeNotify ==
    \A i \in Units :
        \A k \in 1 .. Len(steps[i]) :
            steps[i][k] = "notify" => (k > 1 /\ steps[i][k - 1] = "wait")

\* C17 as amended: after a failed attempt with retries <= max_retries the
\* worker first emits the retry notification, then waits 2^retries seconds,
\* and only then makes the next call.
C17_NotifyBeforeWait ==
    \A i \in Units :
        /\ \A k \in 1 .. Len(steps[i]) :
              steps[i][k] = (CASE k % 3 = 1 -> "call"
                               [] k % 3 = 2 -> "notify"
                               [] OTHER -> "wait")
        /\ Cardinality({k \in 1 .. Len(steps[i]) : steps[i][k] = "wait"}) = Len(waits[i])
        /\ Cardinality({k \in 1 .. Len(steps[i]) : steps[i][k] = "notify"}) = notified[i]
        /\ Cardinality({k \in 1 .. Len(steps[i]) : steps[i][k] = "call"}) = attempts[i]
        /\ st[i] = "sleeping" => notified[i] = Len(waits[i])

\* a unit in its second wait: call, notify, wait, call, notify, wait
C17_Witness ==
    \E i \in Units :
        /\ st[i] = "sleeping"
        /\ steps[i] = <<"call", "notify", "wait", "call", "notify", "wait">>
        /\ waits[i] = <<2, 4>>

\* the pages that occupy a worker: in a call or in the wait before a retry
Occupying == {i \in Units : st[i] \in {"attempting", "sleeping"}}

\* C18 Work-conserving pool: whenever a page waits in the queue and fewer
\* than parallelism units occupy a worker, the page at the head of the queue
\* can start at once; when every worker is taken one of them can take a
\* step; every step lowers a bound on the steps left; and when the run ends
\* no page waits and every page has been attempted.
C18_WorkConserving ==
    /\ []((work_queue # <<>> /\ Cardinality(Occupying) < parallelism)
            => ENABLED StartWork)
    /\ []((work_queue # <<>> /\ Cardinality(Occupying) >= parallelism)
            => \E i \in Occupying : ENABLED (CallSucceeds(i) \/ Wake(i)))
    /\ [][\A i \in Units : UnitMeasure(i)' <= UnitMeasure(i)]_vars
    /\ [][SumMeasure(Len(images))' < SumMeasure(Len(images)) \/ runpc' = "done"]_vars
    /\ [](runpc = "done" =>
            /\ work_queue = <<>>
            /\ \A i \in Units : attempts[i] >= 1)

\* a page is attempted after having waited in the queue behind a unit that
\* exhausted its retries
C18_Witness ==
    /\ Len(images) = 2
    /\ parallelism = 1
    /\ Finished(0)
    /\ ~ret[0][1]
    /\ Len(waits[0]) = 2
    /\ st[1] = "attempting"

\* C19 Result delivered once, last: processing_complete is emitted at most
\* once, as the last signal, when every outcome has been collected and
\* sorted; after it no signal is emitted and no worker notifies.
C19_CompleteOnceLast ==
    /\ [](LET cs == {k \in 1 .. Len(emitted) : emitted[k][1] = "processing_complete"}
          IN  /\ Cardinality(cs) <= 1
              /\ cs # {} => (cs = {Len(emitted)} /\ runpc = "done")
              /\ runpc = "done" =>
                    /\ emitted[Len(emitted)] = CompleteSig(final_text)
                    /\ \A i \in Units : st[i] = "collected"
                    /\ Len(results) = Len(images)
                    /\ \A k \in 1 .. Len(results) : results[k][1] = k - 1)
    /\ [][runpc = "done" => UNCHANGED <<emitted, notified, last_note, results>>]_vars

\* the run ended after a retry notification and two progress events
C19_Witness ==
    /\ runpc = "done"
    /\ Len(emitted) = 3
    /\ emitted[3][1] = "processing_complete"
    /\ \E i \in Units : notified[i] = 2

\* C20 Shared accumulator is race free: results and the signals of run are
\* changed only by a step of the run thread, which leaves every worker's
\* variables alone, and no collected outcome is missing from results.
C20_SingleWriter ==
    /\ [][(results' # results \/ emitted' # emitted) =>
            /\ runpc = "running"
            /\ submitted = Len(images)
            /\ UNCHANGED <<work_queue, retries, attempts, waits, steps,
                           notified, last_note, ret>>]_vars
    /\ [](runpc = "running" =>
            /\ Len(results) = Cardinality({i \in Units : st[i] = "collected"})
            /\ Len(emitted) = Len(results))

\* run has collected one outcome while another worker is still retrying
C20_Witness ==
    /\ runpc = "running"
    /\ Len(results) = 1
    /\ \E i \in Units : st[i] = "sleeping"

\* what the worker of page i + 1 owns
WorkerData(i) ==
    <<retries[i], attempts[i], waits[i], steps[i], notified[i], last_note[i],
      ret[i]>>

\* the number of calls in the steps of page i + 1
CallsOf(i) == Cardinality({k \in 1 .. Len(steps[i]) : steps[i][k] = "call"})

\* C21 Worker frame condition: a step that changes what the worker of one
\* page owns leaves what the worker of every other page owns unchanged, and
\* the attempts of a page are the calls of that page alone: one more than
\* its own failures when it ended in success, its own failures otherwise.
C21_WorkerFrame ==
    /\ [][\A i \in Units : WorkerData(i)' # WorkerData(i) =>
            \A j \in Units \ {i} : WorkerData(j)' = WorkerData(j)]_vars
    /\ [](\A i \in Units :
            /\ attempts[i] = CallsOf(i)
            /\ Finished(i) =>
                 attempts[i] = retries[i] + (IF ret[i][1] THEN 1 ELSE 0))

\* page 1 has failed twice and has gone round again while page 2, started,
\* has not failed at all
C21_Witness ==
    /\ Len(images) = 2
    /\ retries[0] = 2 /\ attempts[0] = 3
    /\ retries[1] = 0 /\ attempts[1] = 1 /\ st[1] = "attempting"

\* C22 Progress event range: every signal of run before processing_complete
\* carries a percentage between 0 and 100, and every retry notification
\* carries -1.
C22_ProgressRange ==
    /\ \A k \in 1 .. Len(emitted) :
          IsProgress(emitted[k]) => emitted[k][2] \in 0 .. 100
    /\ \A i \in Units :
          last_note[i] # NoNote =>
              IsProgress(last_note[i]) /\ last_note[i][2] = -1

\* run has emitted 50 and 100 and a page has notified a retry
C22_Witness ==
    /\ Len(emitted) >= 2
    /\ emitted[1][2] = 50
    /\ emitted[2][2] = 100
    /\ \E i \in Units : last_note[i] # NoNote /\ last_note[i][2] = -1

\* the smaller of two naturals
Min(a, b) == IF a <= b THEN a ELSE b

\* C23 One notification per retry: a page that has failed k times has emitted
\* min(k, max_retries) retry notifications; the j-th one is emitted by the
\* j-th failure and names attempt j of max_retries and the 1-based page;
\* with max_retries = 0 a page is attempted at most once, never waits and
\* emits no notification.
C23_OneNotePerRetry ==
    /\ [](\A i \in Units :
            /\ notified[i] = Min(retries[i], max_retries)
            /\ Len(waits[i]) = notified[i]
            /\ max_retries = 0 =>
                 attempts[i] <= 1 /\ waits[i] = <<>> /\ last_note[i] = NoNote)
    /\ [][\A i \in Units :
            /\ notified[i]' # notified[i] =>
                 /\ notified[i]' = notified[i] + 1
                 /\ retries[i]' = notified[i]'
                 /\ last_note[i]'[3][2] = ToString(i + 1)
                 /\ last_note[i]'[3][4] = ToString(notified[i]')
                 /\ last_note[i]'[3][6] = ToString(max_retries)
            /\ notified[i]' = notified[i] => last_note[i]' = last_note[i]]_vars

\* page 2 has raised twice with max_retries = 2: its second notification
C23_Witness ==
    /\ max_retries = 2
    /\ Len(images) = 2
    /\ notified[1] = 2
    /\ last_note[1] = ProgressSig(-1, <<"Error on page ", "2",
                          ", retrying (attempt ", "2", "/", "2", ")...">>)

\* C24 as stated: every call of OpenAIClient.process_image has read model_id,
\* temperature, stream, max_tokens and the client object from one and the
\* same configuration.
C24_ConsistentPerCall ==
    \A c \in Calls :
        \A j, k \in 1 .. Len(call_params[c]) :
            (j <= 5 /\ k <= 5) => call_params[c][j] = call_params[c][k]

\* a batch is under way: from the start of the task to the slot of its
\* processing_complete
BatchUnderWay == processing_task \in {"running", "complete"}

\* C25 as stated: whenever the Process button is disabled, the batch that
\* will enable it again is under way: its task can end, or its slot
\* processing_finished can run.
C25_ButtonReenabled ==
    ~process_btn => ENABLED (TaskCompletes \/ processing_finished)

\* the pages a task started on file f, with rasterisation b, is to be given
DerivedPages(f, b) ==
    IF file_ext(f) = ".pdf" THEN convert_pdf_to_images(f, b) ELSE <<f>>

\* C26 At most one batch at a time: while a batch is under way the Process
\* button is disabled, the task goes from running to complete to handled and
\* is never replaced, and image_paths and the images of the task stay as
\* they are.
C26_OneBatch ==
    /\ [](BatchUnderWay => ~process_btn)
    /\ [][BatchUnderWay =>
            /\ image_paths' = image_paths
            /\ task_images' = task_images
            /\ task_file' = task_file
            /\ processing_task = "running" =>
                  processing_task' \in {"running", "complete"}
            /\ processing_task = "complete" =>
                  processing_task' \in {"complete", "none"}]_gvars

\* a batch on a.pdf is under way and the user has selected another file
C26_Witness ==
    /\ processing_task = "running"
    /\ task_file = <<"a", ".pdf">>
    /\ current_file = <<"pic", ".png">>
    /\ Len(image_paths) = 2

\* C27 as stated: the task under way was given the pages derived from the
\* file selected when it was started: the rasterised pages in page order for
\* a .pdf, the file itself otherwise.
C27_BatchMatchesFile ==
    BatchUnderWay => task_images = DerivedPages(task_file, task_batch)

\* C28 as stated: no step removes the selected file, and no step removes any
\* file while image_paths holds a single path.
C28_InputKept ==
    [][/\ (current_file \in disk => current_file \in disk')
       /\ (Len(image_paths) = 1 => disk \subseteq disk')]_gvars

\* C29 as stated: a create, rename or clone whose target name names a stored
\* assistant leaves the files and last_assistant as they are, and the
\* prompts of a stored assistant change only by save_current_assistant.
C29_NoSilentOverwrite ==
    /\ [][\A name \in TypedNames :
            (Stored(store, name) /\
               \/ create_new_assistant(name)
               \/ \E item \in get_assistants(store) : rename_assistant(item, name)
               \/ \E item \in get_assistants(store) : clone_assistant(item, name))
            => store' = store /\ last_assistant' = last_assistant]_avars
    /\ [][(\E f \in DOMAIN store \cap DOMAIN store' : store'[f] # store[f])
            => save_current_assistant]_avars

\* C30 last_assistant never dangles: last_assistant is the empty string or
\* the name of an assistant whose file exists.
C30_LastExists ==
    last_assistant = NoName \/ Stored(store, last_assistant)

\* the last assistant has been renamed from a to b in the dialog
C30_Witness ==
    /\ manager_open
    /\ last_assistant = <<"b">>
    /\ ~Stored(store, <<"a">>)
    /\ combo_text = <<"a">>

====
